---- MODULE Spec2Model ----
(***************************************************************************)
(* TokenMetadataAnalysis (src/fetchTokenMetadata.ts) and its helpers       *)
(* (src/utils.ts).  A run of generateSummary is a sequence of segments,    *)
(* each running from one `await` on an external capability to the next;    *)
(* one action of the model is one such segment.  The external capabilities *)
(* (userByUsername, userTimeline, fetch) answer nondeterministically.      *)
(*                                                                         *)
(* JavaScript values: a string is a TLA+ string, an array a sequence, an   *)
(* object a record; an absent (undefined) property is a field that is not  *)
(* in the record's DOMAIN.  A call completes normally with a value or      *)
(* abruptly with a thrown value: Return(v) / Throw(e).                     *)
(***************************************************************************)
EXTENDS Integers, Sequences, FiniteSets, TLC

(***************************************************************************)
(* Bounds and input sets                                                   *)
(***************************************************************************)
\* longest list of posts the timeline lookup returns in the model
MaxTweets == 2

RunIds == {1, 2}

Usernames == {"7etsuo", "SeedUnitSol"}

TOKEN == "8i51XNNpGaKaj4G4nDdmQh95v4FKAxw8mhtaRoKd9tE8"

TokenAddresses == {TOKEN, ""}

(***************************************************************************)
(* Completions and JavaScript objects                                      *)
(***************************************************************************)
Return(v) == [type |-> "normal", value |-> v]
Throw(e) == [type |-> "throw", value |-> e]
Pending == [type |-> "pending"]

IsThrow(c) == c.type = "throw"

\* {}
EmptyObject == [f \in {} |-> TRUE]

\* null
Null == [null |-> TRUE]
IsNull(x) == "null" \in DOMAIN x

Has(obj, f) == f \in DOMAIN obj

\* obj.f || ''   (an absent or empty string property gives '')
OrEmpty(obj, f) == IF Has(obj, f) THEN obj[f] ELSE ""

\* new Error(message)
NewError(message) == [isError |-> TRUE, message |-> message]

(***************************************************************************)
(* String.prototype.includes / startsWith / endsWith                       *)
(***************************************************************************)
includes(text, search) ==
    \E i \in 1..(Len(text) - Len(search) + 1) :
        SubSeq(text, i, i + Len(search) - 1) = search

startsWith(text, search) ==
    /\ Len(search) <= Len(text)
    /\ SubSeq(text, 1, Len(search)) = search

endsWith(text, search) ==
    /\ Len(search) <= Len(text)
    /\ SubSeq(text, Len(text) - Len(search) + 1, Len(text)) = search

(***************************************************************************)
(* src/utils.ts                                                            *)
(***************************************************************************)
socialMediaDomains ==
    << "instagram.com", "twitter.com", "telegram.org", "t.me",
       "facebook.com", "youtube.com", "gitbook.io" >>

\* mutant: a listed domain matches only as the whole hostname or after a dot
isSocialMedia_dotBoundary(hostname) ==
    \E k \in 1..Len(socialMediaDomains) :
        \/ hostname = socialMediaDomains[k]
        \/ endsWith(hostname, "." \o socialMediaDomains[k])

isSocialMedia(hostname) ==
    \E k \in 1..Len(socialMediaDomains) : endsWith(hostname, socialMediaDomains[k])

\* the haystack argument carries its run-time type
StringArg(s) == [typeof |-> "string", value |-> s]
ArrayArg(a) == [typeof |-> "array", value |-> a]

\* mutant: the array case searches the first text only
isTokenAddressInText_first(tokenAddress, textOrTexts) ==
    IF textOrTexts.typeof = "string"
    THEN includes(textOrTexts.value, tokenAddress)
    ELSE IF textOrTexts.typeof = "array"
    THEN Len(textOrTexts.value) > 0 /\ includes(textOrTexts.value[1], tokenAddress)
    ELSE FALSE

\* mutant: the string case compares instead of searching
isTokenAddressInText_equal(tokenAddress, textOrTexts) ==
    IF textOrTexts.typeof = "string"
    THEN textOrTexts.value = tokenAddress
    ELSE IF textOrTexts.typeof = "array"
    THEN \E k \in 1..Len(textOrTexts.value) : includes(textOrTexts.value[k], tokenAddress)
    ELSE FALSE

\* mutant: the arguments of includes are swapped, so the token is searched
\* for the text
isTokenAddressInText_reversed(tokenAddress, textOrTexts) ==
    IF textOrTexts.typeof = "string"
    THEN includes(tokenAddress, textOrTexts.value)
    ELSE IF textOrTexts.typeof = "array"
    THEN \E k \in 1..Len(textOrTexts.value) : includes(tokenAddress, textOrTexts.value[k])
    ELSE FALSE

isTokenAddressInText(tokenAddress, textOrTexts) ==
    IF textOrTexts.typeof = "string"
    THEN includes(textOrTexts.value, tokenAddress)
    ELSE IF textOrTexts.typeof = "array"
    THEN \E k \in 1..Len(textOrTexts.value) : includes(textOrTexts.value[k], tokenAddress)
    ELSE FALSE

(***************************************************************************)
(* Characters, String.prototype.toLowerCase, Array.prototype.join          *)
(***************************************************************************)
Chars(str) == { SubSeq(str, i, i) : i \in 1..Len(str) }

UpperAlphabet == "ABCDEFGHIJKLMNOPQRSTUVWXYZ"
LowerAlphabet == "abcdefghijklmnopqrstuvwxyz"

UpperChars == Chars(UpperAlphabet)
AsciiAlpha == UpperChars \cup Chars(LowerAlphabet)
SchemeChars == AsciiAlpha \cup Chars("0123456789+-.")

\* the lower-case letter of each upper-case letter
lowerOf ==
    [c \in UpperChars |->
        LET k == CHOOSE i \in 1..Len(UpperAlphabet) : SubSeq(UpperAlphabet, i, i) = c
        IN  SubSeq(LowerAlphabet, k, k)]

charToLowerCase(c) == IF c \in UpperChars THEN lowerOf[c] ELSE c

RECURSIVE toLowerCase(_)
toLowerCase(str) ==
    IF \A i \in 1..Len(str) : SubSeq(str, i, i) \notin UpperChars THEN str
    ELSE charToLowerCase(SubSeq(str, 1, 1)) \o toLowerCase(SubSeq(str, 2, Len(str)))

RECURSIVE join(_, _)
join(parts, separator) ==
    IF Len(parts) = 0 THEN ""
    ELSE IF Len(parts) = 1 THEN parts[1]
    ELSE parts[1] \o separator \o join(Tail(parts), separator)

(***************************************************************************)
(* new URL(input), without a base.  The parse fails when the input has no  *)
(* scheme, or has the scheme http/https and an empty host.                 *)
(***************************************************************************)
\* index of the ":" that ends the scheme, 0 when the input has no scheme
schemeEnd(input) ==
    LET ends == { i \in 2..Len(input) :
                    /\ SubSeq(input, i, i) = ":"
                    /\ SubSeq(input, 1, 1) \in AsciiAlpha
                    /\ \A j \in 2..(i - 1) : SubSeq(input, j, j) \in SchemeChars }
    IN  IF ends = {} THEN 0 ELSE CHOOSE i \in ends : \A j \in ends : i <= j

\* first index >= from whose character is not a slash (Len + 1 when none)
skipSlashes(input, from) ==
    LET stops == { i \in from..Len(input) : SubSeq(input, i, i) # "/" }
    IN  IF stops = {} THEN Len(input) + 1 ELSE CHOOSE i \in stops : \A j \in stops : i <= j

\* first index >= from whose character ends the host (Len + 1 when none)
hostEnd(input, from) ==
    LET stops == { i \in from..Len(input) : SubSeq(input, i, i) \in {"/", "?", "#", ":"} }
    IN  IF stops = {} THEN Len(input) + 1 ELSE CHOOSE i \in stops : \A j \in stops : i <= j

URL(input) ==
    LET e == schemeEnd(input)
        protocol == toLowerCase(SubSeq(input, 1, e))
        special == protocol \in {"http:", "https:"}
        h0 == skipSlashes(input, e + 1)
        h1 == hostEnd(input, h0)
        hostname == toLowerCase(SubSeq(input, h0, h1 - 1))
        rest == SubSeq(input, h1, Len(input))
    IN  IF e = 0 THEN Throw(NewError("Invalid URL"))
        ELSE IF ~special
        THEN Return([protocol |-> protocol, hostname |-> "", href |-> input])
        ELSE IF hostname = "" THEN Throw(NewError("Invalid URL"))
        ELSE Return([protocol |-> protocol,
                     hostname |-> hostname,
                     href |-> protocol \o "//" \o hostname
                              \o (IF startsWith(rest, "/") THEN rest ELSE "/" \o rest)])

(***************************************************************************)
(* The external capabilities and what they can answer                      *)
(***************************************************************************)
\* record a with the fields of b added or overridden
Merge(a, b) ==
    [k \in DOMAIN a \cup DOMAIN b |-> IF k \in DOMAIN b THEN b[k] ELSE a[k]]

\* the optional property f, one case per value, and the case of its absence
Optional(f, values) == { EmptyObject } \cup { [k \in {f} |-> v] : v \in values }

Descriptions == { "gm", "Contract Address: " \o TOKEN }

ProfileUrls == { "example.com", "https://t.co/Vy2jXXsA72" }

PublicMetrics ==
    { [followers_count |-> 55226],
      [followers_count |-> 55226, following_count |-> 371, tweet_count |-> 5441] }

\* user.data of a userByUsername response
UserData(username) ==
    { Merge(Merge(Merge([id |-> "1587601034339561472", name |-> "Tetsuo",
                         username |-> username, verified |-> FALSE,
                         created_at |-> "2022-11-02T00:00:00.000Z"], u), d), m) :
        u \in Optional("url", ProfileUrls),
        d \in Optional("description", Descriptions),
        m \in Optional("public_metrics", PublicMetrics) }

\* what the platform client throws: a value that is no Error, an Error, and
\* an Error carrying the platform's list of sub-errors
LookupErrors ==
    { [isError |-> FALSE],
      NewError("Request failed"),
      Merge(NewError("Request failed with code 429"),
            [errors |-> << [detail |-> "Too Many Requests"],
                           [message |-> "Rate limit exceeded"] >>]) }

\* completions of this.#client.v2.userByUsername(username, ...)
UserByUsernameOutcomes(username) ==
    { Return(EmptyObject) }
      \cup { Return([data |-> d]) : d \in UserData(username) }
      \cup { Throw(e) : e \in LookupErrors }

TweetTexts == { "gm", "CA " \o TOKEN }

RECURSIVE SeqsUpTo(_, _)
SeqsUpTo(S, n) ==
    IF n = 0 THEN { << >> }
    ELSE LET shorter == SeqsUpTo(S, n - 1)
         IN  shorter \cup { Append(q, x) : q \in shorter, x \in S }

TweetItem(k, text) ==
    [id |-> "tweet-" \o ToString(k), text |-> text,
     created_at |-> "2024-12-0" \o ToString(k) \o "T00:00:00.000Z"]

\* completions of this.#client.v2.userTimeline(userId, ...): the response's
\* data.data is absent when the account has no posts
UserTimelineOutcomes ==
    { Return([data |-> EmptyObject]) }
      \cup { Return([data |-> [data |-> [k \in 1..Len(texts) |-> TweetItem(k, texts[k])]]]) :
               texts \in SeqsUpTo(TweetTexts, MaxTweets) \ { << >> } }
      \cup { Throw(NewError("Request failed")) }

Statuses == { 200, 404 }

RedirectTargets == { "https://www.instagram.com/7etsuo", "http://evil-instagram.com/" }

\* Response.ok
ok(status) == status \in 200..299

\* completions of fetch(finalUrl, { method }): a TypeError when the URL
\* cannot be fetched or the network fails, else a Response whose url is the
\* request's URL or the URL a redirect led to
FetchOutcomes(finalUrl) ==
    LET u == URL(finalUrl)
    IN  { Throw(NewError("fetch failed")) }
          \cup IF IsThrow(u) \/ u.value.protocol \notin {"http:", "https:"}
               THEN {}
               ELSE { Return([ok |-> ok(st), status |-> st, url |-> target, headers |-> h]) :
                        st \in Statuses,
                        target \in { u.value.href } \cup RedirectTargets,
                        h \in Optional("content-type", {"text/html"}) }

(***************************************************************************)
(* fetchUserProfile, from the completion of the account lookup on          *)
(***************************************************************************)
\* { to: userData.from }, nothing when userData.from is absent
Property(userData, from, to) ==
    IF Has(userData, from) THEN [k \in {to} |-> userData[from]] ELSE EmptyObject

\* userData.public_metrics?.counter ?? 0
publicMetric(userData, counter) ==
    IF Has(userData, "public_metrics") /\ Has(userData.public_metrics, counter)
    THEN userData.public_metrics[counter]
    ELSE 0

fetchUserProfileData(userData) ==
    Merge(Merge(Merge(Merge(
        [id |-> userData.id,
         name |-> userData.name,
         username |-> userData.username,
         url |-> IF Has(userData, "url") THEN userData.url ELSE "",
         followers_count |-> publicMetric(userData, "followers_count"),
         following_count |-> publicMetric(userData, "following_count"),
         tweet_count |-> publicMetric(userData, "tweet_count")],
        Property(userData, "description", "description")),
        Property(userData, "created_at", "date_joined")),
        Property(userData, "verified", "verified")),
        Property(userData, "verified_type", "verified_type"))

\* err.detail || err.message
errorDetail(err) == IF Has(err, "detail") THEN err.detail ELSE err.message

\* mutant: the catch clause throws the failure again
fetchUserProfileCatch_rethrow(username, error) == Throw(error)

fetchUserProfileCatch(username, error) ==
    LET errorMessage ==
            IF error.isError THEN "Failed to fetch user profile for " \o username
            ELSE "Failed to fetch user profile"
        errorDetails ==
            IF ~error.isError THEN ""
            ELSE IF Has(error, "errors")
            THEN join([k \in 1..Len(error.errors) |-> errorDetail(error.errors[k])], "; ")
            ELSE "Error: " \o error.message
    IN  Return([error |-> [message |-> errorMessage, details |-> errorDetails]])

fetchUserProfile(username, outcome) ==
    IF IsThrow(outcome) THEN fetchUserProfileCatch(username, outcome.value)
    ELSE IF ~Has(outcome.value, "data")
    THEN Return([error |-> [message |-> "User not found",
                            details |-> "No data returned for username: " \o username]])
    ELSE Return(fetchUserProfileData(outcome.value.data))

(***************************************************************************)
(* fetchUserTweets, from the completion of the timeline lookup on          *)
(***************************************************************************)
\* mutant: the failure of the lookup is swallowed into an empty list
fetchUserTweets_swallow(outcome) ==
    IF IsThrow(outcome) THEN Return(<< >>)
    ELSE LET data == outcome.value.data
         IN  IF Has(data, "data")
             THEN Return([k \in 1..Len(data.data) |->
                            Merge([id |-> data.data[k].id,
                                   created_at |-> data.data[k].created_at],
                                  Property(data.data[k], "text", "text"))])
             ELSE Return(<< >>)

fetchUserTweets(outcome) ==
    IF IsThrow(outcome) THEN Throw(NewError("Failed to fetch tweets"))
    ELSE LET data == outcome.value.data
         IN  IF Has(data, "data")
             THEN Return([k \in 1..Len(data.data) |->
                            Merge([id |-> data.data[k].id,
                                   created_at |-> data.data[k].created_at],
                                  Property(data.data[k], "text", "text"))])
             ELSE Return(<< >>)

(***************************************************************************)
(* verifyWebsite                                                           *)
(***************************************************************************)
\* the working URL: the input when it parses, else the input behind https://
finalUrlOf(url) == IF IsThrow(URL(url)) THEN "https://" \o url ELSE url

\* makeRequest(method), from the completion of fetch on
makeRequest(outcome) == IF IsThrow(outcome) THEN Null ELSE outcome.value

\* mutant: the GET request follows only a HEAD request that failed at the
\* network level
fallsBackToGET_onlyNull(response) == IsNull(response)

\* whether the GET request follows the HEAD request
fallsBackToGET(response) == IsNull(response) \/ ~response.ok

\* hostname.replace(/^www\./, '')
withoutWWW(hostname) ==
    IF startsWith(hostname, "www.") THEN SubSeq(hostname, 5, Len(hostname)) ELSE hostname

\* the try block, once the requests are over
verifyWebsiteTry(response) ==
    IF IsNull(response) THEN Throw(NewError("Both HEAD and GET requests failed."))
    ELSE LET urlObj == URL(response.url)
         IN  IF IsThrow(urlObj) THEN urlObj
             ELSE LET hostnameWithoutWWW == toLowerCase(withoutWWW(urlObj.value.hostname))
                      isSocial == isSocialMedia(hostnameWithoutWWW)
                  IN  Return(Merge([isValid |-> response.ok,
                                    isSecure |-> startsWith(response.url, "https://"),
                                    status |-> response.status,
                                    isSocialMedia |-> isSocial],
                                   IF OrEmpty(response.headers, "content-type") = ""
                                   THEN EmptyObject
                                   ELSE [contentType |-> response.headers["content-type"]]))

\* mutant: verifyWebsite without the catch of its try block
verifyWebsiteEnd_uncaught(response) == verifyWebsiteTry(response)

\* the try block with its catch
verifyWebsiteEnd(response) ==
    LET try == verifyWebsiteTry(response)
    IN  IF IsThrow(try) THEN Return([isValid |-> FALSE]) ELSE try

(***************************************************************************)
(* State: one generateSummary call per caller.  All of it is the call's    *)
(* own (its parameters, locals and position); the analysis object holds    *)
(* only the client and the bearer token, which no method assigns.          *)
(***************************************************************************)
VARIABLES
    callers,        \* the callers that call generateSummary
    pc,             \* where each call is: idle, awaiting a capability, done
    username,       \* generateSummary's parameter
    tokenAddress,   \* generateSummary's parameter
    userProfile,    \* generateSummary's local
    tokenInTweets,  \* generateSummary's local
    site,           \* the line of generateSummary that called verifyWebsite
    finalUrl,       \* verifyWebsite's local
    result,         \* the completion of generateSummary
    calls,          \* history: the calls issued to the capabilities, in order
    outcomes,       \* history: the completions of those calls, in order
    caught,         \* history: the catch clauses entered, with what they caught
    profileDone,    \* history: the completion of fetchUserProfile
    tweetsDone,     \* history: the completion of fetchUserTweets
    verifyArgs,     \* history: the arguments of the verifyWebsite calls
    verifyDone,     \* history: the completions of the verifyWebsite calls
    extractInput,   \* the argument of a call of extractEd25519PublicKeys
    extractResult,  \* the completion of that call
    socialInput,    \* the argument of a call of isSocialMedia
    socialResult    \* the completion of that call

\* the calls of the helpers of src/utils.ts, which the class does not share in
utils == << extractInput, extractResult, socialInput, socialResult >>

vars == << callers, pc, username, tokenAddress, userProfile, tokenInTweets, site,
           finalUrl, result, calls, outcomes, caught, profileDone, tweetsDone,
           verifyArgs, verifyDone, utils >>

\* the state of caller r's call, as one record
Local(r) ==
    [pc |-> pc[r], username |-> username[r], tokenAddress |-> tokenAddress[r],
     userProfile |-> userProfile[r], tokenInTweets |-> tokenInTweets[r],
     site |-> site[r], finalUrl |-> finalUrl[r], result |-> result[r],
     calls |-> calls[r], outcomes |-> outcomes[r], caught |-> caught[r],
     profileDone |-> profileDone[r], tweetsDone |-> tweetsDone[r],
     verifyArgs |-> verifyArgs[r], verifyDone |-> verifyDone[r]]

\* mutant: the profile is kept in a field of the analysis object, which the
\* callers share
Commit_sharedProfile(r, next) ==
  \E n \in { next } :
    /\ pc' = [pc EXCEPT ![r] = n.pc]
    /\ username' = [username EXCEPT ![r] = n.username]
    /\ tokenAddress' = [tokenAddress EXCEPT ![r] = n.tokenAddress]
    /\ userProfile' = [q \in RunIds |-> n.userProfile]
    /\ tokenInTweets' = [tokenInTweets EXCEPT ![r] = n.tokenInTweets]
    /\ site' = [site EXCEPT ![r] = n.site]
    /\ finalUrl' = [finalUrl EXCEPT ![r] = n.finalUrl]
    /\ result' = [result EXCEPT ![r] = n.result]
    /\ calls' = [calls EXCEPT ![r] = n.calls]
    /\ outcomes' = [outcomes EXCEPT ![r] = n.outcomes]
    /\ caught' = [caught EXCEPT ![r] = n.caught]
    /\ profileDone' = [profileDone EXCEPT ![r] = n.profileDone]
    /\ tweetsDone' = [tweetsDone EXCEPT ![r] = n.tweetsDone]
    /\ verifyArgs' = [verifyArgs EXCEPT ![r] = n.verifyArgs]
    /\ verifyDone' = [verifyDone EXCEPT ![r] = n.verifyDone]
    /\ UNCHANGED << callers, utils >>

\* caller r's call moves to the state next; nothing else changes
Commit(r, next) ==
  \E n \in { next } :
    /\ pc' = [pc EXCEPT ![r] = n.pc]
    /\ username' = [username EXCEPT ![r] = n.username]
    /\ tokenAddress' = [tokenAddress EXCEPT ![r] = n.tokenAddress]
    /\ userProfile' = [userProfile EXCEPT ![r] = n.userProfile]
    /\ tokenInTweets' = [tokenInTweets EXCEPT ![r] = n.tokenInTweets]
    /\ site' = [site EXCEPT ![r] = n.site]
    /\ finalUrl' = [finalUrl EXCEPT ![r] = n.finalUrl]
    /\ result' = [result EXCEPT ![r] = n.result]
    /\ calls' = [calls EXCEPT ![r] = n.calls]
    /\ outcomes' = [outcomes EXCEPT ![r] = n.outcomes]
    /\ caught' = [caught EXCEPT ![r] = n.caught]
    /\ profileDone' = [profileDone EXCEPT ![r] = n.profileDone]
    /\ tweetsDone' = [tweetsDone EXCEPT ![r] = n.tweetsDone]
    /\ verifyArgs' = [verifyArgs EXCEPT ![r] = n.verifyArgs]
    /\ verifyDone' = [verifyDone EXCEPT ![r] = n.verifyDone]
    /\ UNCHANGED << callers, utils >>

(***************************************************************************)
(* generateSummary, segment by segment.  s is the state of the call.       *)
(***************************************************************************)
Catch(s, by, error) == [s EXCEPT !.caught = Append(@, [by |-> by, error |-> error])]

Completed(s, outcome) == [s EXCEPT !.outcomes = Append(@, outcome)]

Finish(s, completion) == [s EXCEPT !.result = completion, !.pc = "done"]

\* this.verifyWebsite(userProfile.url || '') up to its first await
callVerifyWebsite(s, from) ==
    LET url == OrEmpty(s.userProfile, "url")
    IN  [s EXCEPT !.site = from,
                  !.finalUrl = finalUrlOf(url),
                  !.verifyArgs = Append(@, url),
                  !.calls = Append(@, [api |-> "fetch", url |-> finalUrlOf(url),
                                       method |-> "HEAD"]),
                  !.pc = "await_HEAD"]

\* mutant: the timeline lookup and the website probe are started together
\* (as with Promise.all) instead of one after the other
callFetchUserTweets_withProbe(s, userId, maxResults) ==
    [s EXCEPT !.calls = @ \o << [api |-> "userTimeline", userId |-> userId,
                                 max_results |-> maxResults],
                                [api |-> "fetch",
                                 url |-> finalUrlOf(OrEmpty(s.userProfile, "url")),
                                 method |-> "HEAD"] >>,
              !.pc = "await_userTimeline"]

\* this.fetchUserTweets(userId, maxResults) up to its await
callFetchUserTweets(s, userId, maxResults) ==
    [s EXCEPT !.calls = Append(@, [api |-> "userTimeline", userId |-> userId,
                                   max_results |-> maxResults]),
              !.pc = "await_userTimeline"]

\* mutant: the catch around the timeline branch returns without calling
\* verifyWebsite
raise_noVerify(s, line, error) ==
    CASE line \in {"L309", "L311", "L312"} ->
            Finish(Catch(s, "generateSummary.tweetError", error),
                   Return([userProfile |-> s.userProfile,
                           websiteVerification |-> EmptyObject,
                           tokenAddressFound |-> FALSE,
                           error |-> "Failed to fetch tweets. Token address not found in profile or tweets could not be fetched."]))
      [] line \in {"L287", "L300", "L320"} ->
            Finish(Catch(s, "generateSummary.catch", error),
                   Return([userProfile |-> EmptyObject,
                           websiteVerification |-> EmptyObject,
                           tokenAddressFound |-> FALSE,
                           error |-> "An error occurred while generating the summary."]))
      [] OTHER -> Finish(s, Throw(error))

\* mutant: generateSummary without the try block around the timeline branch
enclosingCatch_outer(line) == IF line = "none" THEN "none" ELSE "catch"

\* mutant: generateSummary without its try blocks
enclosingCatch_none(line) == "none"

\* the catch clause of generateSummary that encloses a line of its body
enclosingCatch(line) ==
    CASE line = "L287" -> "catch"
      [] line = "L300" -> "catch"
      [] line = "L309" -> "tweetError"
      [] line = "L311" -> "tweetError"
      [] line = "L312" -> "tweetError"
      [] line = "L320" -> "catch"
      [] OTHER -> "none"

GenericSummary ==
    [userProfile |-> EmptyObject,
     websiteVerification |-> EmptyObject,
     tokenAddressFound |-> FALSE,
     error |-> "An error occurred while generating the summary."]

\* a call made at a line of generateSummary completed abruptly
raise(s, line, error) ==
    CASE enclosingCatch(line) = "tweetError" ->
            callVerifyWebsite(Catch(s, "generateSummary.tweetError", error), "L320")
      [] enclosingCatch(line) = "catch" ->
            Finish(Catch(s, "generateSummary.catch", error), Return(GenericSummary))
      [] OTHER -> Finish(s, Throw(error))

\* mutant: a token counts as found only on a profile whose website is valid
summaryAt_validSiteOnly(s, websiteVerification) ==
    LET valid == Has(websiteVerification, "isValid") /\ websiteVerification.isValid
    IN  CASE s.site = "L300" ->
                [userProfile |-> s.userProfile,
                 websiteVerification |-> websiteVerification,
                 tokenAddressFound |-> valid]
          [] s.site = "L312" ->
                [userProfile |-> s.userProfile,
                 websiteVerification |-> websiteVerification,
                 tokenAddressFound |-> s.tokenInTweets /\ valid]
          [] s.site = "L320" ->
                [userProfile |-> s.userProfile,
                 websiteVerification |-> websiteVerification,
                 tokenAddressFound |-> FALSE,
                 error |-> "Failed to fetch tweets. Token address not found in profile or tweets could not be fetched."]

\* the Summary returned after the verifyWebsite call of a line
summaryAt(s, websiteVerification) ==
    CASE s.site = "L300" ->
            [userProfile |-> s.userProfile,
             websiteVerification |-> websiteVerification,
             tokenAddressFound |-> TRUE]
      [] s.site = "L312" ->
            [userProfile |-> s.userProfile,
             websiteVerification |-> websiteVerification,
             tokenAddressFound |-> s.tokenInTweets]
      [] s.site = "L320" ->
            [userProfile |-> s.userProfile,
             websiteVerification |-> websiteVerification,
             tokenAddressFound |-> FALSE,
             error |-> "Failed to fetch tweets. Token address not found in profile or tweets could not be fetched."]

\* verifyWebsite from the end of its requests to generateSummary's return
verifyWebsiteFinish(s, response) ==
    LET try == verifyWebsiteTry(response)
        s1 == IF IsThrow(try) THEN Catch(s, "verifyWebsite.catch", try.value) ELSE s
        done == verifyWebsiteEnd(response)
        s2 == [s1 EXCEPT !.verifyDone = Append(@, done)]
    IN  IF IsThrow(done) THEN raise(s2, s.site, done.value)
        ELSE Finish(s2, Return(summaryAt(s, done.value)))

requested(s, outcome) ==
    IF IsThrow(outcome)
    THEN Catch(Completed(s, outcome), "makeRequest.catch", outcome.value)
    ELSE Completed(s, outcome)

afterHEAD(s, outcome) ==
    LET response == makeRequest(outcome)
    IN  IF fallsBackToGET(response)
        THEN [requested(s, outcome) EXCEPT
                !.calls = Append(@, [api |-> "fetch", url |-> s.finalUrl, method |-> "GET"]),
                !.pc = "await_GET"]
        ELSE verifyWebsiteFinish(requested(s, outcome), response)

\* mutant: the GET response is not assigned to response, which keeps what
\* the HEAD request gave
afterGET_unassigned(s, outcome) ==
    verifyWebsiteFinish(requested(s, outcome), makeRequest(s.outcomes[Len(s.outcomes)]))

\* mutant: a GET request that failed at the network level is made again
afterGET_retry(s, outcome) ==
    IF IsThrow(outcome)
    THEN [requested(s, outcome) EXCEPT
            !.calls = Append(@, [api |-> "fetch", url |-> s.finalUrl, method |-> "GET"]),
            !.pc = "await_GET"]
    ELSE verifyWebsiteFinish(requested(s, outcome), makeRequest(outcome))

afterGET(s, outcome) ==
    verifyWebsiteFinish(requested(s, outcome), makeRequest(outcome))

\* mutant: the early return reports the generic message
profileErrorSummary_generic(profile) ==
    [userProfile |-> profile,
     websiteVerification |-> EmptyObject,
     tokenAddressFound |-> FALSE,
     error |-> "An error occurred while generating the summary."]

\* the Summary returned when the profile carries an error
profileErrorSummary(profile) ==
    [userProfile |-> profile,
     websiteVerification |-> EmptyObject,
     tokenAddressFound |-> FALSE,
     error |-> profile.error.message]

afterUserByUsername(s, outcome) ==
    LET done == fetchUserProfile(s.username, outcome)
        s0 == IF IsThrow(outcome)
              THEN Catch(Completed(s, outcome), "fetchUserProfile.catch", outcome.value)
              ELSE Completed(s, outcome)
        s1 == [s0 EXCEPT !.profileDone = done]
        s2 == [s1 EXCEPT !.userProfile = done.value]
    IN  IF IsThrow(done) THEN raise(s1, "L287", done.value)
        ELSE IF Has(done.value, "error")
        THEN Finish(s2, Return(profileErrorSummary(done.value)))
        ELSE IF isTokenAddressInText(s.tokenAddress,
                                     StringArg(OrEmpty(done.value, "description")))
        THEN callVerifyWebsite(s2, "L300")
        ELSE callFetchUserTweets(s2, done.value.id, 10)

\* tweets.map(tweet => tweet.text) up to the first post without text
leadingTexts(tweets) ==
    LET without == { k \in 1..Len(tweets) : ~Has(tweets[k], "text") }
        n == IF without = {} THEN Len(tweets)
             ELSE (CHOOSE k \in without : \A j \in without : k <= j) - 1
    IN  [k \in 1..n |-> tweets[k].text]

afterUserTimeline(s, outcome) ==
    LET done == fetchUserTweets(outcome)
        s0 == IF IsThrow(outcome)
              THEN Catch(Completed(s, outcome), "fetchUserTweets.catch", outcome.value)
              ELSE Completed(s, outcome)
        s1 == [s0 EXCEPT !.tweetsDone = done]
    IN  IF IsThrow(done) THEN raise(s1, "L309", done.value)
        ELSE LET \* the texts that some() reaches: those before the first
                 \* post without text, on which text.includes throws
                 reached == leadingTexts(done.value)
                 found == isTokenAddressInText(s.tokenAddress, ArrayArg(reached))
             IN  IF Len(reached) < Len(done.value) /\ ~found
                 THEN raise(s1, "L311",
                            NewError("Cannot read properties of undefined (reading 'includes')"))
                 ELSE callVerifyWebsite([s1 EXCEPT !.tokenInTweets = found], "L312")

(***************************************************************************)
(* Actions                                                                 *)
(***************************************************************************)
InitCallers(who) ==
    /\ callers = who
    /\ pc = [r \in RunIds |-> "idle"]
    /\ username = [r \in RunIds |-> ""]
    /\ tokenAddress = [r \in RunIds |-> ""]
    /\ userProfile = [r \in RunIds |-> EmptyObject]
    /\ tokenInTweets = [r \in RunIds |-> FALSE]
    /\ site = [r \in RunIds |-> "none"]
    /\ finalUrl = [r \in RunIds |-> ""]
    /\ result = [r \in RunIds |-> Pending]
    /\ calls = [r \in RunIds |-> << >>]
    /\ outcomes = [r \in RunIds |-> << >>]
    /\ caught = [r \in RunIds |-> << >>]
    /\ profileDone = [r \in RunIds |-> Pending]
    /\ tweetsDone = [r \in RunIds |-> Pending]
    /\ verifyArgs = [r \in RunIds |-> << >>]
    /\ verifyDone = [r \in RunIds |-> << >>]

\* no helper of src/utils.ts is called on its own
NoUtilityCall ==
    /\ extractInput = [isArray |-> FALSE, texts |-> << "" >>]
    /\ extractResult = Pending
    /\ socialInput = ""
    /\ socialResult = Pending

Init == InitCallers({1}) /\ NoUtilityCall

\* generateSummary(name, token) is called and runs to the account lookup
GenerateSummary(r) ==
    /\ pc[r] = "idle"
    /\ \E name \in Usernames, token \in TokenAddresses :
          Commit(r, [Local(r) EXCEPT
                        !.username = name,
                        !.tokenAddress = token,
                        !.calls = Append(@, [api |-> "userByUsername", username |-> name]),
                        !.pc = "await_userByUsername"])

\* the account lookup completes
UserByUsernameCompletes(r) ==
    /\ pc[r] = "await_userByUsername"
    /\ \E outcome \in UserByUsernameOutcomes(username[r]) :
          Commit(r, afterUserByUsername(Local(r), outcome))

\* the timeline lookup completes
UserTimelineCompletes(r) ==
    /\ pc[r] = "await_userTimeline"
    /\ \E outcome \in UserTimelineOutcomes :
          Commit(r, afterUserTimeline(Local(r), outcome))

\* the HEAD request completes
HeadCompletes(r) ==
    /\ pc[r] = "await_HEAD"
    /\ \E outcome \in FetchOutcomes(finalUrl[r]) :
          Commit(r, afterHEAD(Local(r), outcome))

\* the GET request completes
GetCompletes(r) ==
    /\ pc[r] = "await_GET"
    /\ \E outcome \in FetchOutcomes(finalUrl[r]) :
          Commit(r, afterGET(Local(r), outcome))

Next ==
    \/ \E r \in callers : GenerateSummary(r)
    \/ \E r \in callers : UserByUsernameCompletes(r)
    \/ \E r \in callers : UserTimelineCompletes(r)
    \/ \E r \in callers : HeadCompletes(r)
    \/ \E r \in callers : GetCompletes(r)

Spec == Init /\ [][Next]_vars

(***************************************************************************)
(* Properties                                                              *)
(***************************************************************************)
Done(r) == pc[r] = "done"

\* the positions in calls[r] of the calls to a capability
CallsTo(r, api) == { k \in 1..Len(calls[r]) : calls[r][k].api = api }

\* the account lookup of caller r's call has completed, with this outcome
ProfileLooked(r) == Len(outcomes[r]) >= 1
userByUsernameOutcome(r) == outcomes[r][1]

\* fetchUserProfile returned a profile that carries no error
ProfileOk(r) ==
    /\ profileDone[r].type = "normal"
    /\ ~Has(profileDone[r].value, "error")

\* the description that generateSummary searches
DescriptionOf(r) == OrEmpty(profileDone[r].value, "description")

\* the timeline lookup of caller r's call has completed, with this outcome
TimelineLooked(r) ==
    /\ Len(outcomes[r]) >= 2
    /\ calls[r][2].api = "userTimeline"
userTimelineOutcome(r) == outcomes[r][2]

\* the items of a successful timeline lookup
ItemsOf(outcome) ==
    IF Has(outcome.value.data, "data") THEN outcome.value.data.data ELSE << >>

\* the completions of the probes of caller r's call, in order
ProbeOutcomes(r) ==
    LET first == CHOOSE k \in CallsTo(r, "fetch") : \A j \in CallsTo(r, "fetch") : k <= j
    IN  IF CallsTo(r, "fetch") = {} THEN << >>
        ELSE SubSeq(outcomes[r], first, Len(outcomes[r]))

Failed(outcome) == outcome.type = "throw"


\* C1: whatever the capabilities answer, a generateSummary call that is not
\* over has not thrown and is waiting for a capability to answer (or to be
\* made), and one that is over returned (it did not throw) a Summary that
\* has userProfile, websiteVerification and tokenAddressFound.
C1_AlwaysReturnsSummary ==
    \A r \in callers :
        /\ ~Done(r) =>
              /\ result[r] = Pending
              /\ pc[r] \in {"idle", "await_userByUsername", "await_userTimeline",
                            "await_HEAD", "await_GET"}
        /\ Done(r) =>
              /\ result[r].type = "normal"
              /\ {"userProfile", "websiteVerification", "tokenAddressFound"}
                    \subseteq DOMAIN result[r].value

\* C1 witness: the timeline lookup raised and both probes failed, and the
\* call returned a Summary
C1_Witness ==
    /\ Done(1)
    /\ TimelineLooked(1) /\ Failed(userTimelineOutcome(1))
    /\ Len(ProbeOutcomes(1)) = 2
    /\ \A k \in 1..2 : Failed(ProbeOutcomes(1)[k])
    /\ result[1].type = "normal"
    /\ result[1].value.websiteVerification = [isValid |-> FALSE]

\* C2: when fetchUserProfile returns a record with an error, the only
\* external call of the run is the account lookup, and the run returns the
\* Summary of that record, an empty websiteVerification, tokenAddressFound
\* false and the record's message as error.
C2_ProfileErrorEndsRun ==
    \A r \in callers :
        (profileDone[r].type = "normal" /\ Has(profileDone[r].value, "error")) =>
            /\ Done(r)
            /\ calls[r] = << [api |-> "userByUsername", username |-> username[r]] >>
            /\ verifyArgs[r] = << >>
            /\ result[r] = Return([userProfile |-> profileDone[r].value,
                                   websiteVerification |-> EmptyObject,
                                   tokenAddressFound |-> FALSE,
                                   error |-> profileDone[r].value.error.message])

\* C2 witness: the platform had no data for the handle
C2_Witness ==
    /\ Done(1)
    /\ ~Failed(userByUsernameOutcome(1))
    /\ ~Has(userByUsernameOutcome(1).value, "data")
    /\ result[1].value.error = "User not found"
    /\ result[1].value.userProfile.error.details
          = "No data returned for username: SeedUnitSol"

\* C3: when the profile lookup succeeds and the description contains
\* tokenAddress, the run never calls the timeline lookup and returns a
\* Summary with tokenAddressFound true and no error.
C3_TokenInProfileSkipsTimeline ==
    \A r \in callers :
        (ProfileOk(r) /\ includes(DescriptionOf(r), tokenAddress[r])) =>
            /\ CallsTo(r, "userTimeline") = {}
            /\ Done(r) =>
                  /\ result[r].type = "normal"
                  /\ result[r].value.tokenAddressFound = TRUE
                  /\ ~Has(result[r].value, "error")

\* C3 witness: a non-empty token found inside a longer description
C3_Witness ==
    /\ Done(1)
    /\ ProfileOk(1)
    /\ tokenAddress[1] = TOKEN
    /\ DescriptionOf(1) # TOKEN
    /\ includes(DescriptionOf(1), TOKEN)
    /\ result[1].value.tokenAddressFound

\* C4: when the profile lookup succeeds and the description does not
\* contain tokenAddress, the timeline lookup is called exactly once, with
\* the profile's id and max_results 10; and when that lookup returns, the
\* Summary has no error and tokenAddressFound is true exactly when some
\* returned post text contains tokenAddress.
C4_TimelineDecidesToken ==
    \A r \in callers :
        (ProfileOk(r) /\ ~includes(DescriptionOf(r), tokenAddress[r])) =>
            /\ CallsTo(r, "userTimeline") = {2}
            /\ calls[r][2] = [api |-> "userTimeline",
                              userId |-> profileDone[r].value.id,
                              max_results |-> 10]
            /\ (Done(r) /\ ~Failed(userTimelineOutcome(r))) =>
                  /\ result[r].type = "normal"
                  /\ ~Has(result[r].value, "error")
                  /\ result[r].value.tokenAddressFound
                        = (\E k \in 1..Len(ItemsOf(userTimelineOutcome(r))) :
                              includes(ItemsOf(userTimelineOutcome(r))[k].text,
                                       tokenAddress[r]))

\* C4 witness: the token is in the second of two posts, not in the first
C4_Witness ==
    /\ Done(1)
    /\ TimelineLooked(1) /\ ~Failed(userTimelineOutcome(1))
    /\ Len(ItemsOf(userTimelineOutcome(1))) = 2
    /\ ~includes(ItemsOf(userTimelineOutcome(1))[1].text, tokenAddress[1])
    /\ includes(ItemsOf(userTimelineOutcome(1))[2].text, tokenAddress[1])
    /\ result[1].value.tokenAddressFound

\* C5: when the timeline lookup raises, verifyWebsite is still called, once,
\* on the profile's url, and the run returns the profile, the verifier's
\* verdict, tokenAddressFound false and the tweets-could-not-be-fetched
\* message.
C5_TimelineFailureStillVerifies ==
    \A r \in callers :
        (TimelineLooked(r) /\ Failed(userTimelineOutcome(r))) =>
            /\ ProfileOk(r)
            /\ ~includes(DescriptionOf(r), tokenAddress[r])
            /\ verifyArgs[r] = << profileDone[r].value.url >>
            /\ Done(r) =>
                  /\ Len(verifyDone[r]) = 1
                  /\ verifyDone[r][1].type = "normal"
                  /\ result[r] =
                        Return([userProfile |-> profileDone[r].value,
                                websiteVerification |-> verifyDone[r][1].value,
                                tokenAddressFound |-> FALSE,
                                error |-> "Failed to fetch tweets. Token address not found in profile or tweets could not be fetched."])

\* C5 witness: the timeline lookup raised and the website answered 200
C5_Witness ==
    /\ Done(1)
    /\ TimelineLooked(1) /\ Failed(userTimelineOutcome(1))
    /\ result[1].value.websiteVerification.isValid
    /\ result[1].value.websiteVerification.status = 200
    /\ Has(result[1].value, "error")

\* C6: the verdict of verifyWebsite is the bare { isValid: false } exactly
\* when both probes failed at the network level; when a probe returned a
\* response, the verdict carries status, isSecure and isSocialMedia.
C6_BareVerdictIffBothProbesFailed ==
    \A r \in callers :
        (Done(r) /\ Len(verifyDone[r]) = 1) =>
            /\ (verifyDone[r][1].value = [isValid |-> FALSE])
                  <=> /\ Len(ProbeOutcomes(r)) = 2
                      /\ Failed(ProbeOutcomes(r)[1])
                      /\ Failed(ProbeOutcomes(r)[2])
            /\ (\E k \in 1..Len(ProbeOutcomes(r)) : ~Failed(ProbeOutcomes(r)[k])) =>
                  {"status", "isSecure", "isSocialMedia"}
                      \subseteq DOMAIN verifyDone[r][1].value

\* C7: when the HEAD probe fails at the network level and the GET probe
\* returns a response, the verdict is not the failure verdict: isValid and
\* status are the GET response's, isSecure says whether the scheme of the
\* response's URL is https, and isSocialMedia is isSocialMedia of that URL's
\* hostname.
C7_GetResponseGivesVerdict ==
    \A r \in callers :
        (/\ Done(r)
         /\ Len(ProbeOutcomes(r)) = 2
         /\ Failed(ProbeOutcomes(r)[1])
         /\ ~Failed(ProbeOutcomes(r)[2])) =>
            /\ Len(verifyDone[r]) = 1
            /\ verifyDone[r][1].type = "normal"
            /\ verifyDone[r][1].value # [isValid |-> FALSE]
            /\ verifyDone[r][1].value.isValid = ProbeOutcomes(r)[2].value.ok
            /\ verifyDone[r][1].value.status = ProbeOutcomes(r)[2].value.status
            /\ verifyDone[r][1].value.isSecure
                  = (URL(ProbeOutcomes(r)[2].value.url).value.protocol = "https:")
            /\ verifyDone[r][1].value.isSocialMedia
                  = isSocialMedia(URL(ProbeOutcomes(r)[2].value.url).value.hostname)

\* C7 witness: HEAD failed, GET was redirected to an insecure page of a
\* host that ends with an allow-listed domain
C7_Witness ==
    /\ Done(1)
    /\ Len(ProbeOutcomes(1)) = 2
    /\ Failed(ProbeOutcomes(1)[1])
    /\ ~Failed(ProbeOutcomes(1)[2])
    /\ ProbeOutcomes(1)[2].value.url = "http://evil-instagram.com/"
    /\ verifyDone[1][1].value
          = [isValid |-> TRUE, isSecure |-> FALSE, status |-> 200,
             isSocialMedia |-> TRUE, contentType |-> "text/html"]

\* C8: every verifyWebsite call, whatever its url and whatever the probes
\* answer, returns (it does not throw) a value that has isValid.
C8_VerifyWebsiteNeverRaises ==
    \A r \in callers :
        /\ Len(verifyDone[r]) <= Len(verifyArgs[r])
        /\ Done(r) => Len(verifyDone[r]) = Len(verifyArgs[r])
        /\ \A k \in 1..Len(verifyDone[r]) :
              /\ verifyDone[r][k].type = "normal"
              /\ Has(verifyDone[r][k].value, "isValid")

\* C8 witness: verifyWebsite('') returned the failure verdict after both
\* requests to "https://" threw
C8_Witness ==
    /\ Done(1)
    /\ verifyArgs[1] = << "" >>
    /\ finalUrl[1] = "https://"
    /\ Len(ProbeOutcomes(1)) = 2
    /\ verifyDone[1] = << Return([isValid |-> FALSE]) >>

\* C9: fetchUserProfile never throws.  Its record has an error exactly when
\* the account lookup returned no data or raised; the message is "User not
\* found" when it returned no data; and on success url is '' when the
\* platform gave none and each counter is 0 when the platform gave none.
C9_FetchUserProfileNeverRaises ==
    \A r \in callers :
        ProfileLooked(r) =>
            /\ profileDone[r].type = "normal"
            /\ Has(profileDone[r].value, "error")
                  <=> \/ Failed(userByUsernameOutcome(r))
                      \/ ~Has(userByUsernameOutcome(r).value, "data")
            /\ (~Failed(userByUsernameOutcome(r))
                  /\ ~Has(userByUsernameOutcome(r).value, "data")) =>
                  profileDone[r].value.error.message = "User not found"
            /\ (~Failed(userByUsernameOutcome(r))
                  /\ Has(userByUsernameOutcome(r).value, "data")) =>
                  /\ profileDone[r].value.url
                        = OrEmpty(userByUsernameOutcome(r).value.data, "url")
                  /\ \A counter \in {"followers_count", "following_count", "tweet_count"} :
                        profileDone[r].value[counter]
                           = IF /\ Has(userByUsernameOutcome(r).value.data, "public_metrics")
                                /\ Has(userByUsernameOutcome(r).value.data.public_metrics,
                                       counter)
                             THEN userByUsernameOutcome(r).value.data.public_metrics[counter]
                             ELSE 0

\* C9 witness: the platform gave no url and only the followers counter
C9_Witness ==
    /\ ProfileLooked(1)
    /\ ~Failed(userByUsernameOutcome(1))
    /\ Has(userByUsernameOutcome(1).value, "data")
    /\ ~Has(userByUsernameOutcome(1).value.data, "url")
    /\ Has(userByUsernameOutcome(1).value.data, "public_metrics")
    /\ DOMAIN userByUsernameOutcome(1).value.data.public_metrics = {"followers_count"}
    /\ profileDone[1].value.url = ""
    /\ profileDone[1].value.followers_count = 55226
    /\ profileDone[1].value.following_count = 0
    /\ profileDone[1].value.tweet_count = 0
    /\ ~Has(profileDone[1].value, "error")

\* C10: when the timeline lookup fails, fetchUserTweets throws the Error
\* "Failed to fetch tweets"; when it succeeds, fetchUserTweets returns the
\* returned items' id, text and created_at in the same order (no item: the
\* empty list).  The thrown Error is caught once in generateSummary, by the
\* catch of the timeline branch, and the outermost catch catches nothing.
C10_FetchUserTweetsPropagates ==
    \A r \in callers :
        TimelineLooked(r) =>
            /\ Failed(userTimelineOutcome(r)) =>
                  /\ tweetsDone[r] = Throw(NewError("Failed to fetch tweets"))
                  /\ Cardinality({ k \in 1..Len(caught[r]) :
                                     caught[r][k].error = tweetsDone[r].value }) = 1
                  /\ \E k \in 1..Len(caught[r]) :
                        caught[r][k] = [by |-> "generateSummary.tweetError",
                                        error |-> tweetsDone[r].value]
                  /\ \A k \in 1..Len(caught[r]) : caught[r][k].by # "generateSummary.catch"
            /\ ~Failed(userTimelineOutcome(r)) =>
                  /\ tweetsDone[r].type = "normal"
                  /\ Len(tweetsDone[r].value) = Len(ItemsOf(userTimelineOutcome(r)))
                  /\ \A k \in 1..Len(tweetsDone[r].value) :
                        tweetsDone[r].value[k]
                           = [id |-> ItemsOf(userTimelineOutcome(r))[k].id,
                              text |-> ItemsOf(userTimelineOutcome(r))[k].text,
                              created_at |-> ItemsOf(userTimelineOutcome(r))[k].created_at]

\* C10 witness: the lookup raised, and the run ended with the thrown Error
\* caught by the timeline branch
C10_Witness ==
    /\ Done(1)
    /\ TimelineLooked(1) /\ Failed(userTimelineOutcome(1))
    /\ tweetsDone[1].type = "throw"
    /\ tweetsDone[1].value.message = "Failed to fetch tweets"
    /\ caught[1][2].by = "generateSummary.tweetError"

(***************************************************************************)
(* Two callers on one TokenMetadataAnalysis object.  Each caller analyses  *)
(* its own handle; the capabilities answer from a few of their outcomes    *)
(* (one per kind), so that every interleaving of the two calls is explored.*)
(***************************************************************************)
\* the handle each caller analyses
HandleOf == [r \in RunIds |-> IF r = 1 THEN "7etsuo" ELSE "SeedUnitSol"]

\* account lookups: no data, a failure, an account with each description
FewUserByUsernameOutcomes(name) ==
    { o \in UserByUsernameOutcomes(name) :
        IF IsThrow(o) THEN o.value = NewError("Request failed")
        ELSE Has(o.value, "data") =>
                /\ Has(o.value.data, "url") /\ o.value.data.url = "example.com"
                /\ Has(o.value.data, "description")
                /\ ~Has(o.value.data, "public_metrics") }

\* timeline lookups: a failure, no posts, one post
FewUserTimelineOutcomes ==
    { o \in UserTimelineOutcomes :
        ~IsThrow(o) /\ Has(o.value.data, "data") => Len(o.value.data.data) = 1 }

\* probes: a network failure, or a response from the requested URL
FewFetchOutcomes(url) ==
    { o \in FetchOutcomes(url) :
        ~IsThrow(o) => o.value.url = URL(url).value.href /\ ~Has(o.value.headers, "content-type") }

\* caller r calls generateSummary(HandleOf[r], token)
GenerateSummaryOwnHandle(r) ==
    /\ pc[r] = "idle"
    /\ \E token \in TokenAddresses :
          Commit(r, [Local(r) EXCEPT
                        !.username = HandleOf[r],
                        !.tokenAddress = token,
                        !.calls = Append(@, [api |-> "userByUsername",
                                             username |-> HandleOf[r]]),
                        !.pc = "await_userByUsername"])

UserByUsernameAnswers(r) ==
    /\ pc[r] = "await_userByUsername"
    /\ \E outcome \in FewUserByUsernameOutcomes(username[r]) :
          Commit(r, afterUserByUsername(Local(r), outcome))

UserTimelineAnswers(r) ==
    /\ pc[r] = "await_userTimeline"
    /\ \E outcome \in FewUserTimelineOutcomes :
          Commit(r, afterUserTimeline(Local(r), outcome))

HeadAnswers(r) ==
    /\ pc[r] = "await_HEAD"
    /\ \E outcome \in FewFetchOutcomes(finalUrl[r]) :
          Commit(r, afterHEAD(Local(r), outcome))

GetAnswers(r) ==
    /\ pc[r] = "await_GET"
    /\ \E outcome \in FewFetchOutcomes(finalUrl[r]) :
          Commit(r, afterGET(Local(r), outcome))

NextTwo ==
    \/ \E r \in callers : GenerateSummaryOwnHandle(r)
    \/ \E r \in callers : UserByUsernameAnswers(r)
    \/ \E r \in callers : UserTimelineAnswers(r)
    \/ \E r \in callers : HeadAnswers(r)
    \/ \E r \in callers : GetAnswers(r)

InitTwo == InitCallers({1, 2}) /\ NoUtilityCall

SpecTwo == InitTwo /\ [][NextTwo]_vars

(***************************************************************************)
(* A generateSummary call alone: the state it reaches from its arguments   *)
(* and the answers of the capabilities, in the order they were given.      *)
(***************************************************************************)
\* generateSummary(name, token) up to its first await
started(name, token) ==
    [pc |-> "await_userByUsername", username |-> name, tokenAddress |-> token,
     userProfile |-> EmptyObject, tokenInTweets |-> FALSE, site |-> "none",
     finalUrl |-> "", result |-> Pending,
     calls |-> << [api |-> "userByUsername", username |-> name] >>,
     outcomes |-> << >>, caught |-> << >>, profileDone |-> Pending,
     tweetsDone |-> Pending, verifyArgs |-> << >>, verifyDone |-> << >>]

\* the segment that follows the answer to the outstanding call
resumed(s, answer) ==
    CASE s.pc = "await_userByUsername" -> afterUserByUsername(s, answer)
      [] s.pc = "await_userTimeline" -> afterUserTimeline(s, answer)
      [] s.pc = "await_HEAD" -> afterHEAD(s, answer)
      [] s.pc = "await_GET" -> afterGET(s, answer)
      [] OTHER -> s

RECURSIVE alone(_, _, _)
alone(name, token, answers) ==
    IF Len(answers) = 0 THEN started(name, token)
    ELSE resumed(alone(name, token, SubSeq(answers, 1, Len(answers) - 1)),
                 answers[Len(answers)])

\* C11: with two generateSummary calls interleaved on one analysis object,
\* for different handles, the calls each of them has issued and the Summary
\* it has returned (its whole state) are those of the same call alone given
\* the same answers: what the other call did changes nothing of it.
C11_CallsDoNotInteract ==
    \A r \in callers :
        pc[r] # "idle" =>
            /\ username[r] = HandleOf[r]
            /\ Local(r) = alone(username[r], tokenAddress[r], outcomes[r])

\* both calls are under way at once, each after its own lookups, and their
\* profiles differ
C11_Witness ==
    /\ callers = {1, 2}
    /\ pc[1] = "await_GET" /\ site[1] = "L320"
    /\ pc[2] = "await_HEAD" /\ site[2] = "L300"
    /\ userProfile[1] # userProfile[2]

(***************************************************************************)
(* extractEd25519PublicKeys (src/utils.ts) and what it uses: the pattern   *)
(* /\b[1-9A-HJ-NP-Za-km-z]{32,44}\b/g of String.prototype.match, and       *)
(* bs58.decode.                                                            *)
(***************************************************************************)
\* longest array of texts passed in the model
MaxTexts == 2

\* {32,44} in the pattern
MinLength == 32
MaxLength == 44

\* decoded.length === 32
KeyLength == 32

Base58Alphabet == "123456789ABCDEFGHJKLMNPQRSTUVWXYZabcdefghijkmnopqrstuvwxyz"
Base58Chars == Chars(Base58Alphabet)

\* \w
WordChars == AsciiAlpha \cup Chars("0123456789_")

\* the digit a character of the alphabet stands for
base58Value ==
    [c \in Base58Chars |->
        (CHOOSE i \in 1..Len(Base58Alphabet) : SubSeq(Base58Alphabet, i, i) = c) - 1]

\* The carry loop over bytes (least significant first): every byte becomes
\* 58 times itself plus the carry so far, modulo 256, and hands the rest on.
\* Gives the new bytes and the carry out of the last one.  The loop is
\* evaluated low half first, then the high half with the carry of the low one.
RECURSIVE timesBytes(_, _)
timesBytes(bytes, carry) ==
    IF Len(bytes) = 0 THEN [bytes |-> << >>, carry |-> carry]
    ELSE IF Len(bytes) = 1
    THEN [bytes |-> << (58 * bytes[1] + carry) % 256 >>,
          carry |-> (58 * bytes[1] + carry) \div 256]
    ELSE LET half == Len(bytes) \div 2
             low == timesBytes(SubSeq(bytes, 1, half), carry)
             high == timesBytes(SubSeq(bytes, half + 1, Len(bytes)), low.carry)
         IN  [bytes |-> low.bytes \o high.bytes, carry |-> high.carry]

\* the number b256 (bytes, least significant first) times 58 plus carry, a
\* digit; the carry out of the last byte is below 58 and makes one more byte
timesBasePlus(b256, carry) ==
    LET product == timesBytes(b256, carry)
    IN  IF product.carry = 0 THEN product.bytes
        ELSE product.bytes \o << product.carry >>

\* b256 after the characters j..k of source, in order: the loop over the
\* characters, with the first half of the range evaluated before the second
RECURSIVE charsInto(_, _, _, _)
charsInto(b256, source, j, k) ==
    IF j > k THEN b256
    ELSE IF j = k THEN timesBasePlus(b256, base58Value[SubSeq(source, j, j)])
    ELSE LET mid == (j + k) \div 2
             first == charsInto(b256, source, j, mid)
         IN  IF Len(first) < 0 THEN << >>
             ELSE charsInto(first, source, mid + 1, k)

\* the number the first k characters of source stand for
b256Of(source, k) == charsInto(<< >>, source, 1, k)

\* the number of "1" that source starts with
zeroesOf(source) ==
    LET stops == { i \in 1..Len(source) : SubSeq(source, i, i) # "1" }
    IN  IF stops = {} THEN Len(source) ELSE (CHOOSE i \in stops : \A j \in stops : i <= j) - 1

\* bs58.decode(source): one zero byte per leading "1", then the bytes of the
\* number, most significant first; a character outside the alphabet throws
bs58decode(source) ==
    IF \E i \in 1..Len(source) : SubSeq(source, i, i) \notin Base58Chars
    THEN Throw(NewError("Non-base58 character"))
    ELSE LET b256 == b256Of(source, Len(source))
         IN  Return([k \in 1..(zeroesOf(source) + Len(b256)) |->
                        IF k <= zeroesOf(source) THEN 0
                        ELSE b256[Len(b256) + 1 - (k - zeroesOf(source))]])

\* whether text has a word character at i
isWordChar(text, i) == i \in 1..Len(text) /\ SubSeq(text, i, i) \in WordChars

\* \b between the characters i - 1 and i of text
wordBoundary(text, i) == isWordChar(text, i - 1) # isWordChar(text, i)

\* [1-9A-HJ-NP-Za-km-z] at i
isBase58At(text, i) == i \in 1..Len(text) /\ SubSeq(text, i, i) \in Base58Chars

\* the length of the match of the pattern that starts at i, 0 when there is
\* none: the quantifier is greedy
matchLength(text, i) ==
    IF ~wordBoundary(text, i) \/ ~isBase58At(text, i) THEN 0
    ELSE LET lengths == { n \in MinLength..MaxLength :
                            /\ wordBoundary(text, i + n)
                            /\ \A j \in i..(i + n - 1) : isBase58At(text, j) }
         IN  IF lengths = {} THEN 0
             ELSE CHOOSE n \in lengths : \A m \in lengths : m <= n

\* the first position from i on at which the pattern matches, 0 when there
\* is none
nextMatch(text, i) ==
    LET starts == { j \in i..Len(text) : matchLength(text, j) > 0 }
    IN  IF starts = {} THEN 0 ELSE CHOOSE j \in starts : \A k \in starts : j <= k

\* mutant: the pattern without its g flag, which gives the first match only
match_first(text, i) ==
    IF nextMatch(text, i) = 0 THEN << >>
    ELSE << SubSeq(text, nextMatch(text, i),
                   nextMatch(text, i) + matchLength(text, nextMatch(text, i)) - 1) >>

\* text.match(pattern) || [] from position i on: the leftmost match, then the
\* matches after it
RECURSIVE match(_, _)
match(text, i) ==
    IF nextMatch(text, i) = 0 THEN << >>
    ELSE << SubSeq(text, nextMatch(text, i),
                   nextMatch(text, i) + matchLength(text, nextMatch(text, i)) - 1) >>
            \o match(text, nextMatch(text, i) + matchLength(text, nextMatch(text, i)))

\* the input with the array it is normalised to: the array itself, or the
\* array of the one string
StringInput(s) == [isArray |-> FALSE, texts |-> << s >>]
ArrayInput(a) == [isArray |-> TRUE, texts |-> a]

\* the try block of the inner loop: whether the candidate is added
isValidAddress(candidate) ==
    LET decoded == bs58decode(candidate)
    IN  IF IsThrow(decoded) THEN FALSE
        ELSE Len(decoded.value) = KeyLength

\* mutant: the length of the decoded bytes is not checked
extractEd25519PublicKeys_anyLength(input) ==
    LET texts == input.texts
    IN  Return(UNION { { c \in { match(texts[t], 1)[k] : k \in 1..Len(match(texts[t], 1)) } :
                            ~IsThrow(bs58decode(c)) } : t \in 1..Len(texts) })

extractEd25519PublicKeys(input) ==
    LET texts == input.texts
    IN  Return(UNION { { c \in { match(texts[t], 1)[k] : k \in 1..Len(match(texts[t], 1)) } :
                            isValidAddress(c) } : t \in 1..Len(texts) })

(***************************************************************************)
(* Calls of extractEd25519PublicKeys                                       *)
(***************************************************************************)
\* runs of the alphabet: three that decode to 32 bytes (44, 43 and 32
\* characters), two that do not (33 and 24 bytes), one too short, one too long
Words ==
    { TOKEN,
      "So11111111111111111111111111111111111111112",
      "11111111111111111111111111111111",
      "zzzzzzzzzzzzzzzzzzzzzzzzzzzzzzzzzzzzzzzzzzzz",
      SubSeq(TOKEN, 1, 32),
      "1111111111111111111111111111111",
      TOKEN \o "1" }

\* what stands before and after a run
Befores == { "", " ", "_", "0", "CA: " }
Afters == { "", " ", "_", "l", "." }

Texts ==
    { "", "gm" }
      \cup { b \o w \o a : b \in Befores, w \in Words, a \in Afters }
      \cup { v \o s \o w : v \in { TOKEN, SubSeq(TOKEN, 1, 32) },
                           s \in { " ", ",", "_" },
                           w \in { TOKEN, "11111111111111111111111111111111" } }

ExtractInputs ==
    { StringInput(t) : t \in Texts }
      \cup { ArrayInput(q) :
               q \in SeqsUpTo({ "", "CA " \o TOKEN, "_" \o TOKEN,
                                "11111111111111111111111111111111!" }, MaxTexts) }

InitExtract ==
    /\ InitCallers({})
    /\ extractInput \in ExtractInputs
    /\ extractResult = Pending
    /\ socialInput = ""
    /\ socialResult = Pending

\* extractEd25519PublicKeys(extractInput) is called and returns
ExtractEd25519PublicKeys ==
    /\ extractResult = Pending
    /\ extractResult' = extractEd25519PublicKeys(extractInput)
    /\ UNCHANGED << callers, pc, username, tokenAddress, userProfile, tokenInTweets,
                    site, finalUrl, result, calls, outcomes, caught, profileDone,
                    tweetsDone, verifyArgs, verifyDone, extractInput, socialInput,
                    socialResult >>

NextExtract == ExtractEd25519PublicKeys

SpecExtract == InitExtract /\ [][NextExtract]_vars

\* the texts of an input
TextsOf(input) == input.texts

\* the substring of text of n characters from i is a candidate: 32 to 44
\* characters of the alphabet between two word boundaries
IsCandidateAt(text, i, n) ==
    /\ n \in MinLength..MaxLength
    /\ i >= 1 /\ i + n - 1 <= Len(text)
    /\ wordBoundary(text, i) /\ wordBoundary(text, i + n)
    /\ \A j \in i..(i + n - 1) : SubSeq(text, j, j) \in Base58Chars

\* C12: the set extractEd25519PublicKeys returns holds only substrings of the
\* input texts that match the pattern (32 to 44 characters of the base58
\* alphabet between word boundaries) and that bs58 decodes to exactly 32
\* bytes; the call returns, it never throws; an input without text gives
\* the empty set.
C12_OnlyDecodedKeys ==
    extractResult # Pending =>
        /\ extractResult.type = "normal"
        /\ \A key \in extractResult.value :
              /\ \E t \in 1..Len(TextsOf(extractInput)) :
                    \E i \in 1..Len(TextsOf(extractInput)[t]) :
                        /\ IsCandidateAt(TextsOf(extractInput)[t], i, Len(key))
                        /\ SubSeq(TextsOf(extractInput)[t], i, i + Len(key) - 1) = key
              /\ bs58decode(key).type = "normal"
              /\ Len(bs58decode(key).value) = 32
        /\ (\A t \in 1..Len(TextsOf(extractInput)) : TextsOf(extractInput)[t] = "")
              => extractResult.value = {}

\* a text with a candidate that decodes to 33 bytes returned the empty set
C12_Witness ==
    /\ extractInput = StringInput("CA: zzzzzzzzzzzzzzzzzzzzzzzzzzzzzzzzzzzzzzzzzzzz.")
    /\ extractResult = Return({})

\* letters and digits
AlphanumericChars == AsciiAlpha \cup Chars("0123456789")

\* text has no letter or digit at i: another character, or the edge
NotAlphanumericAt(text, i) ==
    ~(i \in 1..Len(text) /\ SubSeq(text, i, i) \in AlphanumericChars)

\* the n characters of text from i are a maximal run of 32 to 44 characters
\* of the alphabet with no letter or digit before and after it
IsRunAt(text, i, n) ==
    /\ n \in MinLength..MaxLength
    /\ i >= 1 /\ i + n - 1 <= Len(text)
    /\ NotAlphanumericAt(text, i - 1) /\ NotAlphanumericAt(text, i + n)
    /\ \A j \in i..(i + n - 1) : SubSeq(text, j, j) \in Base58Chars

DecodesToKey(candidate) ==
    /\ bs58decode(candidate).type = "normal"
    /\ Len(bs58decode(candidate).value) = 32

\* C13 as stated: every maximal run of 32 to 44 characters of the base58
\* alphabet that has no letter or digit (or nothing) on each side and that
\* decodes to 32 bytes is in the set extractEd25519PublicKeys returns.
C13_EveryBoundedRunIsExtracted ==
    extractResult.type = "normal" =>
        \A t \in 1..Len(TextsOf(extractInput)) :
            \A i \in 1..Len(TextsOf(extractInput)[t]), n \in MinLength..MaxLength :
                (/\ IsRunAt(TextsOf(extractInput)[t], i, n)
                 /\ DecodesToKey(SubSeq(TextsOf(extractInput)[t], i, i + n - 1)))
                    => SubSeq(TextsOf(extractInput)[t], i, i + n - 1) \in extractResult.value

\* C13, amended: every run of 32 to 44 characters of the base58 alphabet that
\* has no letter, digit or underscore (or nothing) on each side and that
\* decodes to 32 bytes is in the returned set, and every member of the set is
\* such a whole run: runs of more than 44 or fewer than 32 characters
\* contribute nothing.
C13_EveryWordBoundedRunIsExtracted ==
    extractResult.type = "normal" =>
        /\ \A t \in 1..Len(TextsOf(extractInput)) :
              \A i \in 1..Len(TextsOf(extractInput)[t]), n \in MinLength..MaxLength :
                  (/\ IsCandidateAt(TextsOf(extractInput)[t], i, n)
                   /\ DecodesToKey(SubSeq(TextsOf(extractInput)[t], i, i + n - 1)))
                      => SubSeq(TextsOf(extractInput)[t], i, i + n - 1) \in extractResult.value
        /\ \A key \in extractResult.value :
              \E t \in 1..Len(TextsOf(extractInput)) :
                  \E i \in 1..Len(TextsOf(extractInput)[t]) :
                      /\ IsCandidateAt(TextsOf(extractInput)[t], i, Len(key))
                      /\ SubSeq(TextsOf(extractInput)[t], i, i + Len(key) - 1) = key

\* a text with two runs that decode to 32 bytes, of 44 and of 32 characters,
\* returned both
C13_Witness ==
    /\ extractInput = StringInput(TOKEN \o "," \o "11111111111111111111111111111111")
    /\ extractResult = Return({ TOKEN, "11111111111111111111111111111111" })

(***************************************************************************)
(* Calls of isSocialMedia                                                  *)
(***************************************************************************)
Hostnames ==
    { p \o d \o s :
        p \in { "", "www.", "evil-", "x" },
        d \in { "instagram.com", "twitter.com", "telegram.org", "t.me", "facebook.com",
                "youtube.com", "gitbook.io", "example.com", "instagram.co", "me",
                "Instagram.com", "" },
        s \in { "", ".", ".example.com" } }

InitSocial ==
    /\ InitCallers({})
    /\ extractInput = [isArray |-> FALSE, texts |-> << "" >>]
    /\ extractResult = Pending
    /\ socialInput \in Hostnames
    /\ socialResult = Pending

\* isSocialMedia(socialInput) is called and returns
IsSocialMedia ==
    /\ socialResult = Pending
    /\ socialResult' = Return(isSocialMedia(socialInput))
    /\ UNCHANGED << callers, pc, username, tokenAddress, userProfile, tokenInTweets,
                    site, finalUrl, result, calls, outcomes, caught, profileDone,
                    tweetsDone, verifyArgs, verifyDone, extractInput, extractResult,
                    socialInput >>

NextSocial == IsSocialMedia

SpecSocial == InitSocial /\ [][NextSocial]_vars

\* the seven domains of the allow-list
AllowListed ==
    { "instagram.com", "twitter.com", "telegram.org", "t.me", "facebook.com",
      "youtube.com", "gitbook.io" }

\* C14: isSocialMedia(hostname) is true exactly when hostname is some string
\* (possibly empty, with or without a final dot) followed by one of the
\* seven listed domains; "instagram.com" and "evil-instagram.com" give
\* true, "example.com" gives false.
C14_SuffixOfListedDomain ==
    socialResult # Pending =>
        /\ socialResult.type = "normal"
        /\ socialResult.value
              <=> \E d \in AllowListed :
                     \E n \in 0..Len(socialInput) :
                         socialInput = SubSeq(socialInput, 1, n) \o d
        /\ socialInput \in { "instagram.com", "evil-instagram.com" } => socialResult.value
        /\ socialInput = "example.com" => ~socialResult.value

\* the hostname of another site that ends with a listed domain gave true
C14_Witness ==
    /\ socialInput = "evil-instagram.com"
    /\ socialResult = Return(TRUE)

\* C15: in a generateSummary call the external calls go one at a time and in
\* order: at most one call is outstanding; the first call, and only the
\* first, is the account lookup; a timeline lookup is the second call and no
\* other; every later call is a website probe, so the probes are issued
\* after the lookups have completed and no lookup follows a probe.
C15_CallsAreSequential ==
    \A r \in callers :
        /\ Len(calls[r]) - Len(outcomes[r]) \in {0, 1}
        /\ pc[r] \in {"idle", "done"} => Len(calls[r]) = Len(outcomes[r])
        /\ \A k \in 1..Len(calls[r]) :
              /\ calls[r][k].api = "userByUsername" <=> k = 1
              /\ calls[r][k].api = "userTimeline" => k = 2
              /\ k > 2 => calls[r][k].api = "fetch"
              /\ calls[r][k].api = "fetch" =>
                    /\ profileDone[r] # Pending
                    /\ \A j \in 1..(k - 1) :
                          calls[r][j].api \in {"userByUsername", "userTimeline"}
                              => Len(outcomes[r]) >= j

\* a finished call that made the account lookup, the timeline lookup and
\* two probes, in this order
C15_Witness ==
    /\ Done(1)
    /\ Len(calls[1]) = 4 /\ Len(outcomes[1]) = 4
    /\ calls[1][1].api = "userByUsername"
    /\ calls[1][2].api = "userTimeline"
    /\ calls[1][3].api = "fetch" /\ calls[1][4].api = "fetch"

\* the positions in calls[r] of the probes of the verifyWebsite call that
\* starts with the HEAD request at position h
ProbesFrom(r, h) ==
    { k \in h..Len(calls[r]) :
        \A j \in (h + 1)..k : calls[r][j].api = "fetch" /\ calls[r][j].method = "GET" }

\* the positions in calls[r] of the HEAD requests
Heads(r) == { k \in CallsTo(r, "fetch") : calls[r][k].method = "HEAD" }

\* C16: a verifyWebsite call issues exactly one HEAD request, first; it
\* issues a GET request exactly when the HEAD request has completed with a
\* network failure or with a response that is not ok, after that completion
\* and to the same URL; it issues nothing after the GET request.
C16_GetOnlyAfterFailedHead ==
    \A r \in callers :
        /\ Cardinality(Heads(r)) = Len(verifyArgs[r])
        /\ \A k \in CallsTo(r, "fetch") :
              calls[r][k].method = "GET" =>
                  /\ k - 1 \in Heads(r)
                  /\ calls[r][k].url = calls[r][k - 1].url
                  /\ Len(outcomes[r]) >= k - 1
                  /\ \/ Failed(outcomes[r][k - 1])
                     \/ ~ok(outcomes[r][k - 1].value.status)
        /\ \A h \in Heads(r) :
              /\ Cardinality(ProbesFrom(r, h)) <= 2
              /\ Len(outcomes[r]) >= h =>
                    ((\/ Failed(outcomes[r][h])
                      \/ ~ok(outcomes[r][h].value.status))
                        <=> (h + 1 \in CallsTo(r, "fetch") /\ calls[r][h + 1].method = "GET"))

\* a HEAD request answered with a 404 response was followed by a GET
\* request to the same URL
C16_Witness ==
    /\ Len(calls[1]) = 3 /\ Len(outcomes[1]) = 2
    /\ calls[1][2].api = "fetch" /\ calls[1][2].method = "HEAD"
    /\ outcomes[1][2].type = "normal" /\ outcomes[1][2].value.status = 404
    /\ calls[1][3].api = "fetch" /\ calls[1][3].method = "GET"
    /\ calls[1][3].url = calls[1][2].url

\* C17 as stated: a finished generateSummary call has called verifyWebsite
\* exactly once, whichever branch it took.
C17_VerifiedExactlyOnce ==
    \A r \in callers :
        Done(r) => Len(verifyArgs[r]) = 1 /\ Len(verifyDone[r]) = 1

\* C17, amended: a finished generateSummary call whose profile carries no
\* error (token in the profile, timeline read, timeline failed) has called
\* verifyWebsite exactly once and returns that call's verdict; a call whose
\* profile carries an error has not called it and returns an empty
\* websiteVerification; no call calls it more than once.
C17_VerifiedOnceUnlessProfileError ==
    \A r \in callers :
        /\ Len(verifyArgs[r]) <= 1
        /\ Done(r) =>
              /\ Len(verifyDone[r]) = Len(verifyArgs[r])
              /\ IF ProfileOk(r)
                 THEN /\ Len(verifyArgs[r]) = 1
                      /\ verifyDone[r][1].type = "normal"
                      /\ result[r].value.websiteVerification = verifyDone[r][1].value
                 ELSE /\ Len(verifyArgs[r]) = 0
                      /\ result[r].value.websiteVerification = EmptyObject

\* a call that finished after the timeline lookup failed has called
\* verifyWebsite once, from the catch clause, and returns its verdict
C17_Witness ==
    /\ Done(1) /\ ProfileOk(1)
    /\ site[1] = "L320"
    /\ Len(verifyArgs[1]) = 1
    /\ result[1].value.websiteVerification = verifyDone[1][1].value

(***************************************************************************)
(* The timeline lookup answering with a post that carries no text: the     *)
(* response is used as it comes, nothing checks it against TweetV2.        *)
(***************************************************************************)
\* a post without text
TextlessItem(k) ==
    [id |-> "tweet-" \o ToString(k),
     created_at |-> "2024-12-0" \o ToString(k) \o "T00:00:00.000Z"]

\* responses of userTimeline in which one post has no text
TextlessUserTimelineOutcomes ==
    { Return([data |-> [data |-> [k \in 1..Len(texts) |->
                                     IF k = u THEN TextlessItem(k)
                                     ELSE TweetItem(k, texts[k])]]]) :
        texts \in SeqsUpTo(TweetTexts, MaxTweets) \ { << >> }, u \in 1..MaxTweets } \ UserTimelineOutcomes

\* the timeline lookup completes with such a response
UserTimelineCompletesTextless(r) ==
    /\ pc[r] = "await_userTimeline"
    /\ \E outcome \in TextlessUserTimelineOutcomes :
          Commit(r, afterUserTimeline(Local(r), outcome))

NextUnchecked ==
    \/ \E r \in callers : GenerateSummary(r)
    \/ \E r \in callers : UserByUsernameCompletes(r)
    \/ \E r \in callers : UserTimelineCompletes(r)
    \/ \E r \in callers : UserTimelineCompletesTextless(r)
    \/ \E r \in callers : HeadCompletes(r)
    \/ \E r \in callers : GetCompletes(r)

SpecUnchecked == Init /\ [][NextUnchecked]_vars

\* a catch clause of generateSummary caught a failure that is not the one
\* fetchUserTweets throws when the timeline lookup fails
CaughtOtherFailure(r) ==
    \E k \in 1..Len(caught[r]) :
        /\ caught[r][k].by \in {"generateSummary.tweetError", "generateSummary.catch"}
        /\ caught[r][k].error # NewError("Failed to fetch tweets")

\* C18 as stated: a finished generateSummary call in which a failure other
\* than the timeline lookup's own was raised (while matching the token
\* against the post texts, say) went through the outermost handler and
\* returned the generic Summary, not the tweets-fetch-failed message.
C18_OtherFailuresGiveGenericSummary ==
    \A r \in callers :
        (Done(r) /\ CaughtOtherFailure(r)) =>
            /\ caught[r][Len(caught[r])].by = "generateSummary.catch"
            /\ result[r] = Return(GenericSummary)

\* the answers of the lookups of caller r's call, without those of the probes
LookupAnswers(r) ==
    SubSeq(outcomes[r], 1,
           Cardinality({ k \in 1..Len(outcomes[r]) : calls[r][k].api # "fetch" }))

\* a Summary without its websiteVerification
WithoutVerdict(summary) ==
    [f \in DOMAIN summary \ {"websiteVerification"} |-> summary[f]]

\* what the handle, the token and the answers of the two lookups decide of
\* the Summary, whatever the probes answer: the Summary that the call has
\* returned before any probe, or the one it is to return when the
\* verifyWebsite call it has just made returns
DecidedBeforeProbes(name, token, answers) ==
    LET s == alone(name, token, answers)
    IN  IF s.pc = "done" THEN WithoutVerdict(s.result.value)
        ELSE WithoutVerdict(summaryAt(s, EmptyObject))

\* C19: the userProfile, tokenAddressFound and error of the Summary a
\* generateSummary call returns are a function of the handle, the token and
\* the answers of the account and timeline lookups: two calls that agree on
\* these and differ in what the probes answer return Summaries that differ in
\* websiteVerification at most.
C19_ProbesDecideOnlyTheVerdict ==
    \A r \in callers :
        Done(r) =>
            /\ result[r].type = "normal"
            /\ WithoutVerdict(result[r].value)
                  = DecidedBeforeProbes(username[r], tokenAddress[r], LookupAnswers(r))

\* a call that found the token in a post and whose two probes failed
C19_Witness ==
    /\ Done(1)
    /\ site[1] = "L312" /\ tokenInTweets[1]
    /\ Len(ProbeOutcomes(1)) = 2
    /\ result[1].value.websiteVerification = [isValid |-> FALSE]
    /\ result[1].value.tokenAddressFound

(***************************************************************************)
(* Every external call is answered: a call that waits for a capability     *)
(* does not wait forever.                                                  *)
(***************************************************************************)
\* the awaits of a call
Awaits == {"await_userByUsername", "await_userTimeline", "await_HEAD", "await_GET"}

\* the capability that caller r's call waits for answers: the call leaves
\* the await it is at (each of UserByUsernameCompletes, UserTimelineCompletes,
\* HeadCompletes and GetCompletes does this, and nothing else does)
Answered(r) ==
    /\ pc[r] \in Awaits
    /\ \E next \in (Awaits \cup {"done"}) \ { pc[r] } : pc' = [pc EXCEPT ![r] = next]

FairSpec == Spec /\ \A r \in RunIds : WF_pc(Answered(r))

\* the state of the orchestrator in which caller r's call waits or has ended.
\* PROFILE_FETCHED lasts no await: the call leaves it within the segment
\* that enters it.
OrchestratorState(r) ==
    CASE pc[r] = "idle" -> "NOT_STARTED"
      [] pc[r] = "await_userByUsername" -> "START"
      [] pc[r] = "await_userTimeline" -> "TOKEN_CHECK_TIMELINE"
      [] pc[r] \in {"await_HEAD", "await_GET"} /\ site[r] = "L300" -> "TOKEN_IN_PROFILE"
      [] pc[r] \in {"await_HEAD", "await_GET"} /\ site[r] # "L300" -> "TOKEN_CHECK_TIMELINE"
      [] OTHER -> "DONE"

\* the place of a state in START, PROFILE_FETCHED, {TOKEN_IN_PROFILE,
\* TOKEN_CHECK_TIMELINE}, DONE
Rank(state) ==
    CASE state = "NOT_STARTED" -> 0
      [] state = "START" -> 1
      [] state = "PROFILE_FETCHED" -> 2
      [] state \in {"TOKEN_IN_PROFILE", "TOKEN_CHECK_TIMELINE"} -> 3
      [] OTHER -> 4

\* C20: with every external call answered, a generateSummary call that has
\* started eventually is done; on the way it never goes back to an earlier
\* orchestrator state nor from one of TOKEN_IN_PROFILE, TOKEN_CHECK_TIMELINE
\* to the other, and once done it stays done; it makes at most one account
\* lookup, one timeline lookup and two website probes.
C20_RunTerminatesInOrder ==
    /\ \A r \in RunIds : (pc[r] = "await_userByUsername") ~> Done(r)
    /\ [][\A r \in RunIds :
            \/ OrchestratorState(r)' = OrchestratorState(r)
            \/ Rank(OrchestratorState(r)') > Rank(OrchestratorState(r))]_vars
    /\ [](\A r \in RunIds :
            /\ Cardinality(CallsTo(r, "userByUsername")) <= 1
            /\ Cardinality(CallsTo(r, "userTimeline")) <= 1
            /\ Cardinality(CallsTo(r, "fetch")) <= 2)

\* a call is done after one account lookup, one timeline lookup that
\* failed and two probes
C20_Witness ==
    /\ Done(1) /\ site[1] = "L320"
    /\ Cardinality(CallsTo(1, "userByUsername")) = 1
    /\ Cardinality(CallsTo(1, "userTimeline")) = 1
    /\ Cardinality(CallsTo(1, "fetch")) = 2

(***************************************************************************)
(* The fields of a Summary taken together                                  *)
(***************************************************************************)
\* the texts of the posts that the timeline lookup of caller r's call
\* returned, none when it was not made or failed
ReturnedTexts(r) ==
    IF ~TimelineLooked(r) \/ Failed(userTimelineOutcome(r)) THEN { }
    ELSE { ItemsOf(userTimelineOutcome(r))[k].text :
             k \in { j \in 1..Len(ItemsOf(userTimelineOutcome(r))) :
                       Has(ItemsOf(userTimelineOutcome(r))[j], "text") } }

\* C21: in every Summary that generateSummary returns, an error field comes
\* with tokenAddressFound false; and tokenAddressFound true comes with a
\* userProfile without error field, a websiteVerification that verifyWebsite
\* returned (it has the isValid field), and a tokenAddress that is a literal
\* substring of the profile's description ('' when it has none) or of the
\* text of a post that the timeline lookup of the call returned.
C21_SummaryFieldsAgree ==
    \A r \in callers :
        (Done(r) /\ result[r].type = "normal") =>
            /\ Has(result[r].value, "error") => ~result[r].value.tokenAddressFound
            /\ result[r].value.tokenAddressFound =>
                  /\ ~Has(result[r].value.userProfile, "error")
                  /\ Has(result[r].value.websiteVerification, "isValid")
                  /\ verifyDone[r] = << Return(result[r].value.websiteVerification) >>
                  /\ \/ includes(OrEmpty(result[r].value.userProfile, "description"),
                                 tokenAddress[r])
                     \/ \E text \in ReturnedTexts(r) : includes(text, tokenAddress[r])

\* a call that found the token in the second of two posts, not in the
\* description, and got a verdict from a probe that was answered
C21_Witness ==
    /\ Done(1)
    /\ tokenAddress[1] = TOKEN
    /\ result[1].value.tokenAddressFound
    /\ ~Has(result[1].value, "error")
    /\ OrEmpty(result[1].value.userProfile, "description") = "gm"
    /\ TimelineLooked(1) /\ ~Failed(userTimelineOutcome(1))
    /\ Len(ItemsOf(userTimelineOutcome(1))) = 2
    /\ ~includes(ItemsOf(userTimelineOutcome(1))[1].text, TOKEN)
    /\ includes(ItemsOf(userTimelineOutcome(1))[2].text, TOKEN)
    /\ result[1].value.websiteVerification.isValid

====
